---- MODULE Spec2Model ----
(***************************************************************************)
(* The per-connection protocol engine of go-smtp-server (conn.go): the     *)
(* command dispatcher Conn.handle and its handlers, driven by the serve    *)
(* loop that reads one line at a time from the connection's buffered       *)
(* reader.  Strings that the code parses are sequences of characters;      *)
(* replies are the calls of Conn.Write made since the last command line    *)
(* was taken from the reader.  The client's lines in flight are counted    *)
(* (pending); what a line says is drawn when the line is read, since the   *)
(* client is free to have written anything.  A handler that blocks on a    *)
(* read (the SASL exchange, the body of DATA) is one action per stretch    *)
(* between two reads, and pc says where the connection's task stands.      *)
(***************************************************************************)
EXTENDS Integers, Sequences, FiniteSets, TLC

VARIABLES
    server,     \* the Server's configuration, read-only once serving starts
    helo,       \* Conn.helo
    User,       \* Conn.User
    msg,        \* Conn.msg
    conn,       \* Conn.conn: the transport
    bufio,      \* the transport Conn.reader / Conn.writer are bound to
    nbrErrors,  \* Conn.nbrErrors
    closed,     \* Conn.conn.Close() has been called
    pc,         \* position of the connection's task
    pending,    \* lines the client has written that nothing has read yet
    clientOpen, \* the client has not closed its side
    scanbuf,    \* lines held by handleAuth's bufio.Scanner
    rounds,     \* challenges sent by the running handleAuth
    cmd,        \* the command line dispatched last
    out,        \* calls of Write since that line was dispatched
    dropped,    \* lines discarded unread by the handler of that command
    sent,       \* the User.Send invocation of that command, if any
    upgrades,   \* assignments of a TLS wrapper to Conn.conn so far
    logouts,    \* calls of Logout so far on the user Conn.User refers to
    userOps     \* what the last step of the task did to Conn.User

vars == <<server, helo, User, msg, conn, bufio, nbrErrors, closed, pc, pending,
          clientOpen, scanbuf, rounds, cmd, out, dropped, sent, upgrades,
          logouts, userOps>>

connVars == <<helo, User, msg, conn, bufio, nbrErrors, closed>>

----------------------------------------------------------------------------
(* Bounds of the model *)

\* lines the client may have in flight (pipelining depth)
MaxPending == 2
\* recipients accepted in one envelope when MaxRecipients is 0 (unlimited)
MaxTo == 2
\* challenges one AUTH exchange may take
MaxRounds == 2

----------------------------------------------------------------------------
(* Values *)

Nil == "nil"
Users == {"u1"}

NilMsg == [nil |-> TRUE]
Message(from, to) == [nil |-> FALSE, From |-> from, To |-> to]

\* the configurations the connection is served under: with or without TLS,
\* with or without AUTH on plaintext, with or without limits
Limits == {[MaxRecipients |-> 0, MaxMessageBytes |-> 0],
           [MaxRecipients |-> 2, MaxMessageBytes |-> 2]}
Servers ==
    {[TLSConfig |-> t, AllowInsecureAuth |-> a,
      MaxRecipients |-> l.MaxRecipients, MaxMessageBytes |-> l.MaxMessageBytes,
      auths |-> {"PLAIN", "LOGIN"}, caps |-> <<"PIPELINING">>] :
        t \in BOOLEAN, a \in BOOLEAN, l \in Limits}

NoSend == [called |-> FALSE]

----------------------------------------------------------------------------
(* Command lines a client can write, already split into verb and argument *)

HelloArgs == {<<>>, <<"c", " ", "z">>}

\* the text of a SIZE value: decimal digits denoting n, or something else
\* a SIZE value made of decimal digits, most significant first
Digits(ds) == [digits |-> TRUE, ds |-> ds]
NotDigits == [digits |-> FALSE]
SizeTok(v) == <<"size", v>>
MailArgs ==
    { [kw |-> "FROM:", addr |-> <<"a">>, params |-> <<>>],
      [kw |-> "from:", addr |-> <<"b">>, params |-> <<>>],
      [kw |-> "TO:", addr |-> <<"a">>, params |-> <<>>],
      [kw |-> "FROM:", addr |-> <<"a">>, params |-> << <<"BODY">> >>],
      [kw |-> "FROM:", addr |-> <<"a">>, params |-> << SizeTok(Digits(<<1>>)) >>],
      [kw |-> "FROM:", addr |-> <<"b">>, params |-> << SizeTok(Digits(<<3>>)) >>],
      [kw |-> "FROM:", addr |-> <<"b">>, params |-> << SizeTok(Digits(<<2, 1, 4, 7, 4, 8, 3, 6, 4, 8>>)) >>],
      [kw |-> "FROM:", addr |-> <<"a">>, params |-> << SizeTok(NotDigits) >>] }

RcptArgs ==
    { <<"T", "O", ":">>,
      <<"F", "R", ":", "x">>,
      <<"T", "O", ":", "<", "x", ">">>,
      <<"t", "o", ":", " ", "y">> }

DataArgs == {<<>>, <<"x">>}

\* AUTH arguments: whitespace-separated fields; a field is a name or a
\* base64 text, valid ("b64") or not ("!b64")
AuthArgs ==
    { <<>>, <<"plain">>, <<"PLAIN", "b64">>, <<"PLAIN", "!b64">>,
      <<"BOGUS">>, <<"BOGUS", "!b64">> }

NotImplemented == {"SEND", "SOML", "SAML", "EXPN", "HELP", "TURN"}

Line(v, a) == [verb |-> v, arg |-> a]

Lines ==
    {Line("", <<>>)}
    \cup {Line(v, <<>>) : v \in {"HELP", "VRFY", "NOOP", "RSET", "QUIT",
                                 "STARTTLS", "FOOBAR"}}
    \cup {Line(v, a) : v \in {"HELO", "EHLO"}, a \in HelloArgs}
    \cup {Line("MAIL", a) : a \in MailArgs}
    \cup {Line("RCPT", a) : a \in RcptArgs}
    \cup {Line("DATA", a) : a \in DataArgs}
    \cup {Line("AUTH", a) : a \in AuthArgs}

NoLine == Line("-", <<>>)

\* lines read inside the SASL exchange
ResponseLines == {"", "b64", "!b64"}

----------------------------------------------------------------------------
(* Strings *)

ToUpper(ch) ==
    CASE ch = "t" -> "T"
      [] ch = "o" -> "O"
      [] ch = "f" -> "F"
      [] ch = "r" -> "R"
      [] ch = "plain" -> "PLAIN"
      [] ch = "login" -> "LOGIN"
      [] ch = "from:" -> "FROM:"
      [] ch = "to:" -> "TO:"
      [] ch = "size" -> "SIZE"
      [] OTHER -> ch

Upper(s) == [i \in 1..Len(s) |-> ToUpper(s[i])]

RECURSIVE TrimLeft(_, _)
TrimLeft(s, cutset) ==
    IF s # <<>> /\ Head(s) \in cutset THEN TrimLeft(Tail(s), cutset) ELSE s

RECURSIVE TrimRight(_, _)
TrimRight(s, cutset) ==
    IF s # <<>> /\ s[Len(s)] \in cutset
    THEN TrimRight(SubSeq(s, 1, Len(s) - 1), cutset)
    ELSE s

\* strings.Trim
Trim(s, cutset) == TrimRight(TrimLeft(s, cutset), cutset)

\* index of the first space of s, 0 when it holds none
RECURSIVE IndexSpace(_, _)
IndexSpace(s, i) ==
    IF i > Len(s) THEN 0
    ELSE IF s[i] = " " THEN i
    ELSE IndexSpace(s, i + 1)

----------------------------------------------------------------------------
(* Parsers *)

\* parseHelloArgument: the text before the first space; empty is an error
parseHelloArgument(arg) ==
    LET idx == IndexSpace(arg, 1)
        domain == IF idx > 0 THEN SubSeq(arg, 1, idx - 1) ELSE arg
    IN  [err |-> domain = <<>>, domain |-> domain]

\* the regular expression of handleMail: FROM: in any case, a non-empty
\* address between angle brackets, optional parameters
MailMatches(arg) == ToUpper(arg.kw) = "FROM:" /\ arg.addr # <<>>

\* parseArgs: every field splits at "=" into exactly a key and a value
parseArgsFails(params) == \E i \in 1..Len(params) : Len(params[i]) # 2

\* args["SIZE"]: the value of the last field whose upper-cased key is SIZE
HasSize(params) == \E i \in 1..Len(params) : ToUpper(params[i][1]) = "SIZE"
SizeArg(params) ==
    LET idx == {i \in 1..Len(params) : ToUpper(params[i][1]) = "SIZE"}
        last == CHOOSE i \in idx : \A j \in idx : j <= i
    IN  params[last][2]

\* strconv.ParseInt(s, 10, 32)
\* the digits are accumulated and the value is a range error once it would
\* pass the largest 32-bit integer
MaxInt32 == 2147483647
RangeError == -1

RECURSIVE ParseDigits(_, _)
ParseDigits(ds, acc) ==
    IF ds = <<>> THEN acc
    ELSE IF acc > (MaxInt32 - Head(ds)) \div 10 THEN RangeError
    ELSE ParseDigits(Tail(ds), acc * 10 + Head(ds))

ParseInt(v) == ParseDigits(v.ds, 0)
ParseIntFails(v) == ~v.digits \/ ParseInt(v) = RangeError

----------------------------------------------------------------------------
(* Conn *)

Reply(code, text) == [code |-> code, text |-> text]

\* Conn.Write appends one reply, of one or more lines, to the output
Write(o, code, text) == Append(o, Reply(code, text))

\* IsTLS never seeing the wrapper
IsTLS_Never == FALSE

IsTLS == conn # "tcp"

\* if c.User != nil { c.User.Logout() }
LogoutIfUser == userOps' = IF User # Nil THEN <<"Logout">> ELSE <<>>

\* the step leaves Conn.User alone
noUserOps == userOps' = <<>> /\ UNCHANGED logouts

\* reset forgetting to drop the envelope
reset_KeepMsg ==
    /\ LogoutIfUser
    /\ logouts' = 0
    /\ helo' = <<>>
    /\ User' = Nil
    /\ UNCHANGED msg

\* reset forgetting to clear the helo domain
reset_KeepHelo ==
    /\ LogoutIfUser
    /\ logouts' = 0
    /\ UNCHANGED helo
    /\ User' = Nil
    /\ msg' = NilMsg

\* reset clearing the fields without a word to the user
reset_NoLogout ==
    /\ userOps' = <<>>
    /\ logouts' = 0
    /\ helo' = <<>>
    /\ User' = Nil
    /\ msg' = NilMsg

\* Conn.reset
reset ==
    /\ LogoutIfUser
    /\ logouts' = 0
    /\ helo' = <<>>
    /\ User' = Nil
    /\ msg' = NilMsg

\* the line was taken from the reader and nothing else was read
noIO ==
    /\ pending' = pending - 1
    /\ scanbuf' = 0
    /\ rounds' = 0
    /\ dropped' = 0
    /\ sent' = NoSend
    /\ UNCHANGED <<conn, bufio, upgrades>>

\* a refusal counted as if its command had been unrecognized
replyOnly_Counting(code, text) ==
    /\ out' = Write(<<>>, code, text)
    /\ pc' = "serve"
    /\ noIO
    /\ noUserOps
    /\ nbrErrors' = IF code = "501" THEN nbrErrors + 1 ELSE nbrErrors
    /\ UNCHANGED <<helo, User, msg, closed>>

\* a handler that returns to the serve loop having only replied
replyOnly(code, text) ==
    /\ out' = Write(<<>>, code, text)
    /\ pc' = "serve"
    /\ noIO
    /\ noUserOps
    /\ UNCHANGED <<helo, User, msg, nbrErrors, closed>>

\* the capability lines of an EHLO reply
AdvertiseStartTLS == server.TLSConfig /\ ~IsTLS
\* AUTH advertised whatever the transport
AdvertiseAuth_Always == TRUE

AdvertiseAuth == IsTLS \/ server.AllowInsecureAuth
AdvertiseSize == server.MaxMessageBytes > 0

Caps ==
    server.caps
    \o (IF AdvertiseStartTLS THEN <<"STARTTLS">> ELSE <<>>)
    \o (IF AdvertiseAuth THEN <<"AUTH">> ELSE <<>>)
    \o (IF AdvertiseSize THEN <<"SIZE">> ELSE <<>>)

\* a greeting that starts the mail transaction afresh
handleGreet_NewEnvelope(enhanced, arg) ==
    LET r == parseHelloArgument(arg) IN
    IF r.err
    THEN replyOnly("501", <<"Domain/address argument required">>)
    ELSE /\ helo' = r.domain
         /\ msg' = IF msg.nil THEN NilMsg ELSE Message(<<>>, <<>>)
         /\ out' = Write(<<>>, "250",
                         IF enhanced THEN <<"Hello">> \o Caps ELSE <<"Hello">>)
         /\ pc' = "serve"
         /\ noIO
         /\ noUserOps
         /\ UNCHANGED <<User, nbrErrors, closed>>

handleGreet(enhanced, arg) ==
    LET r == parseHelloArgument(arg) IN
    IF r.err
    THEN replyOnly("501", <<"Domain/address argument required">>)
    ELSE /\ helo' = r.domain
         /\ out' = Write(<<>>, "250",
                         IF enhanced THEN <<"Hello">> \o Caps ELSE <<"Hello">>)
         /\ pc' = "serve"
         /\ noIO
         /\ noUserOps
         /\ UNCHANGED <<User, msg, nbrErrors, closed>>

\* the test without its MaxMessageBytes > 0 half
SizeExceeded_NoZeroTest(size) == size > server.MaxMessageBytes

SizeExceeded(size) ==
    server.MaxMessageBytes > 0 /\ size > server.MaxMessageBytes

handleMail(arg) ==
    IF helo = <<>>
    THEN replyOnly("502", <<"Please introduce yourself first.">>)
    ELSE IF msg.nil
    THEN replyOnly("502", <<"Please authenticate first.">>)
    ELSE IF ~MailMatches(arg)
    THEN replyOnly("501", <<"Was expecting MAIL arg syntax of FROM:<address>">>)
    ELSE IF arg.params # <<>> /\ parseArgsFails(arg.params)
    THEN replyOnly("501", <<"Unable to parse MAIL ESMTP parameters">>)
    ELSE IF arg.params # <<>> /\ HasSize(arg.params)
            /\ ParseIntFails(SizeArg(arg.params))
    THEN replyOnly("501", <<"Unable to parse SIZE as an integer">>)
    ELSE IF arg.params # <<>> /\ HasSize(arg.params)
            /\ SizeExceeded(ParseInt(SizeArg(arg.params)))
    THEN replyOnly("552", <<"Max message size exceeded">>)
    ELSE /\ msg' = [msg EXCEPT !.From = arg.addr]
         /\ out' = Write(<<>>, "250", <<"Roger, accepting mail from">>)
         /\ pc' = "serve"
         /\ noIO
         /\ noUserOps
         /\ UNCHANGED <<helo, User, nbrErrors, closed>>

RcptSyntaxOk(arg) == Len(arg) >= 4 /\ Upper(SubSeq(arg, 1, 3)) = <<"T", "O", ":">>

\* the limit applied one recipient early
RcptLimitReached_OneEarly ==
    server.MaxRecipients > 0 /\ Len(msg.To) + 1 >= server.MaxRecipients

RcptLimitReached ==
    server.MaxRecipients > 0 /\ Len(msg.To) >= server.MaxRecipients

\* the test of handleRcpt for a sender without its From half
SenderMissing_NilOnly == msg.nil

SenderMissing == msg.nil \/ msg.From = <<>>

handleRcpt(arg) ==
    IF SenderMissing
    THEN replyOnly("502", <<"Missing MAIL FROM command.">>)
    ELSE IF ~RcptSyntaxOk(arg)
    THEN replyOnly("501", <<"Was expecting RCPT arg syntax of TO:<address>">>)
    ELSE IF RcptLimitReached
    THEN replyOnly("552", <<"Maximum limit of recipients reached">>)
    ELSE /\ Len(msg.To) < MaxTo
         /\ msg' = [msg EXCEPT !.To =
                        Append(@, Trim(SubSeq(arg, 4, Len(arg)), {"<", ">", " "}))]
         /\ out' = Write(<<>>, "250", <<"I'll make sure this gets delivered">>)
         /\ pc' = "serve"
         /\ noIO
         /\ noUserOps
         /\ UNCHANGED <<helo, User, nbrErrors, closed>>

\* Conn.Close: the transport is closed; the fields of Conn are left as they are
Close ==
    /\ LogoutIfUser
    /\ logouts' = IF User # Nil THEN logouts + 1 ELSE logouts
    /\ closed' = TRUE

\* base64.StdEncoding.DecodeString on a field of the line
DecodeFails(field) == field = "!b64"

\* sasl.Next: what a mechanism may answer to a response.  The mechanisms are
\* supplied by the server's owner; one may ask for more (while the exchange
\* is within MaxRounds), fail, or finish, having set Conn.User or not.
SaslNext ==
    {[kind |-> "challenge"], [kind |-> "error"]}
    \cup {[kind |-> "done", login |-> u] : u \in Users \cup {Nil}}

\* handleAuth leaves: the scanner, and the sb lines it still holds, is dropped
authReturn(o, p, sb) ==
    /\ out' = o
    /\ pc' = "serve"
    /\ pending' = p
    /\ scanbuf' = 0
    /\ rounds' = 0
    /\ dropped' = sb
    /\ sent' = NoSend
    /\ UNCHANGED <<helo, conn, bufio, upgrades, nbrErrors, closed>>

\* one turn of handleAuth's loop, from sasl.Next to scanner.Scan, and the
\* lines after the loop; o is the output so far, p the lines left unread,
\* sb the lines the scanner holds
authNext(o, p, sb) ==
    \E r \in SaslNext :
        CASE r.kind = "error" ->
                 /\ authReturn(Write(o, "454", <<"error">>), p, sb)
                 /\ noUserOps
                 /\ UNCHANGED <<User, msg>>
          [] r.kind = "done" ->
                 LET u == IF r.login # Nil THEN r.login ELSE User IN
                 /\ User' = u
                 /\ IF r.login # Nil
                    THEN userOps' = <<"Set">> /\ logouts' = 0
                    ELSE noUserOps
                 /\ IF u # Nil
                    THEN /\ authReturn(Write(o, "235", <<"Authentication succeeded">>),
                                       p, sb)
                         /\ msg' = Message(<<>>, <<>>)
                    ELSE /\ authReturn(o, p, sb)
                         /\ UNCHANGED msg
          [] r.kind = "challenge" ->
                 /\ rounds < MaxRounds
                 /\ out' = Write(o, "334", <<"challenge">>)
                 /\ pc' = "auth"
                 /\ pending' = p
                 /\ scanbuf' = sb
                 /\ rounds' = rounds + 1
                 /\ dropped' = 0
                 /\ sent' = NoSend
                 /\ noUserOps
                 /\ UNCHANGED <<helo, User, msg, conn, bufio, upgrades,
                                nbrErrors, closed>>

handleAuth(arg) ==
    IF helo = <<>>
    THEN replyOnly("502", <<"Please introduce yourself first.">>)
    ELSE IF arg = <<>>
    THEN replyOnly("502", <<"Missing parameter">>)
    ELSE IF Len(arg) > 1 /\ DecodeFails(arg[2])
    THEN /\ authReturn(<<>>, pending - 1, 0)
         /\ noUserOps
         /\ UNCHANGED <<User, msg>>
    ELSE IF ToUpper(arg[1]) \notin server.auths
    THEN replyOnly("504", <<"Unsupported authentication mechanism">>)
    ELSE authNext(<<>>, pending - 1, 0)

\* the transport ends: nothing is buffered and the client has closed
TransportEnded == pending = 0 /\ ~clientOpen

\* scanner.Scan in handleAuth and the lines after it.  The scanner reads
\* from Conn.reader into a buffer of its own: it takes the line it returns
\* and, with it, whatever else the reader had available.
AuthScan ==
    /\ pc = "auth"
    /\ UNCHANGED <<server, clientOpen, cmd>>
    /\ IF scanbuf = 0 /\ TransportEnded
       THEN /\ authReturn(out, pending, 0)
            /\ noUserOps
            /\ UNCHANGED <<User, msg>>
       ELSE \E k \in 0..pending, encoded \in ResponseLines :
                /\ IF scanbuf > 0 THEN k = 0 ELSE k >= 1
                /\ IF encoded # "" /\ DecodeFails(encoded)
                   THEN /\ authReturn(Write(out, "454", <<"Invalid base64 data">>),
                                      pending - k, scanbuf + k - 1)
                        /\ noUserOps
                        /\ UNCHANGED <<User, msg>>
                   ELSE authNext(out, pending - k, scanbuf + k - 1)

handleStartTLS ==
    IF IsTLS
    THEN replyOnly("502", <<"Already running in TLS">>)
    ELSE IF ~server.TLSConfig
    THEN replyOnly("502", <<"TLS not supported">>)
    ELSE \E ok \in BOOLEAN, k \in 0..(pending - 1) :
             \* k lines sit in the reader that init replaces; a handshake
             \* succeeds only if no plaintext is left on the wire
             /\ ok => k = pending - 1
             /\ out' = IF ok
                       THEN Write(<<>>, "220", <<"Ready to start TLS">>)
                       ELSE Write(Write(<<>>, "220", <<"Ready to start TLS">>),
                                  "550", <<"Handshake error">>)
             /\ conn' = IF ok THEN "tls" ELSE "tlsFailed"
             /\ bufio' = conn'
             /\ upgrades' = upgrades + 1
             /\ reset
             /\ pc' = "serve"
             /\ pending' = pending - 1 - k
             /\ dropped' = k
             /\ scanbuf' = 0
             /\ rounds' = 0
             /\ sent' = NoSend
             /\ UNCHANGED <<nbrErrors, closed>>

\* the check of handleData without its test for recipients
DataReady_NoRcptTest == ~msg.nil /\ msg.From # <<>>

DataReady == ~msg.nil /\ msg.From # <<>> /\ Len(msg.To) > 0

\* handleData up to the call of User.Send
handleData(arg) ==
    IF arg # <<>>
    THEN replyOnly("501", <<"DATA command should not have any arguments">>)
    ELSE IF ~DataReady
    THEN replyOnly("502", <<"Missing RCPT TO command.">>)
    ELSE /\ out' = Write(<<>>, "354", <<"Go ahead">>)
         /\ sent' = [called |-> TRUE, user |-> User, msg |-> msg]
         /\ pc' = "send"
         /\ pending' = pending - 1
         /\ scanbuf' = 0
         /\ rounds' = 0
         /\ dropped' = 0
         /\ noUserOps
         /\ UNCHANGED <<helo, User, msg, conn, bufio, upgrades, nbrErrors, closed>>

\* what User.Send may return: nil, an *smtpError with its own code, or
\* another error
SendResults == {"nil", "smtpError", "error"}

\* User.Send returns, having read n lines of body, and handleData finishes
SendReturns ==
    /\ pc = "send"
    /\ \E n \in 0..pending, err \in SendResults :
           /\ pending' = pending - n
           /\ out' = CASE err = "nil" -> Write(out, "250", <<"Ok: queued">>)
                       [] err = "smtpError" -> Write(out, "552", <<"err.Message">>)
                       [] err = "error" -> Write(out, "554", <<"Error: transaction failed">>)
    /\ reset
    /\ pc' = "serve"
    /\ UNCHANGED <<server, clientOpen, cmd, conn, bufio, upgrades, nbrErrors,
                   closed, scanbuf, rounds, dropped, sent>>

\* the threshold one command later
TooManyErrors_OneLater(n) == n > 4

TooManyErrors(n) == n > 3

handleUnknown ==
    /\ nbrErrors' = nbrErrors + 1
    /\ IF TooManyErrors(nbrErrors')
       THEN /\ out' = Write(Write(<<>>, "500", <<"Syntax error, command unrecognized">>),
                            "500", <<"Too many unrecognized commands">>)
            /\ Close
       ELSE /\ out' = Write(<<>>, "500", <<"Syntax error, command unrecognized">>)
            /\ noUserOps
            /\ UNCHANGED closed
    /\ pc' = "serve"
    /\ noIO
    /\ UNCHANGED <<helo, User, msg>>

handleRset ==
    /\ reset
    /\ out' = Write(<<>>, "250", <<"Session reset">>)
    /\ pc' = "serve"
    /\ noIO
    /\ UNCHANGED <<nbrErrors, closed>>

handleQuit ==
    /\ out' = Write(<<>>, "221", <<"Goodnight and good luck">>)
    /\ Close
    /\ pc' = "serve"
    /\ noIO
    /\ UNCHANGED <<helo, User, msg, nbrErrors>>

\* Conn.handle
handle(verb, arg) ==
    CASE verb = "" -> replyOnly("500", <<"Speak up">>)
      [] verb \in NotImplemented -> replyOnly("502", <<"command not implemented">>)
      [] verb \in {"HELO", "EHLO"} -> handleGreet(verb = "EHLO", arg)
      [] verb = "MAIL" -> handleMail(arg)
      [] verb = "RCPT" -> handleRcpt(arg)
      [] verb = "VRFY" -> replyOnly("252", <<"Cannot VRFY user, but will accept message">>)
      [] verb = "NOOP" -> replyOnly("250", <<"I have sucessfully done nothing">>)
      [] verb = "RSET" -> handleRset
      [] verb = "DATA" -> handleData(arg)
      [] verb = "QUIT" -> handleQuit
      [] verb = "AUTH" -> handleAuth(arg)
      [] verb = "STARTTLS" -> handleStartTLS
      [] OTHER -> handleUnknown

----------------------------------------------------------------------------
(* The connection's task and its client *)

\* Conn.readLine fails: the transport is closed, the TLS wrapper is unusable,
\* or the transport has ended
ReadFails == closed \/ conn = "tlsFailed" \/ TransportEnded

Init ==
    /\ server \in Servers
    /\ helo = <<>>
    /\ User = Nil
    /\ msg = NilMsg
    /\ conn = "tcp"
    /\ bufio = "tcp"
    /\ nbrErrors = 0
    /\ closed = FALSE
    /\ pc = "greet"
    /\ pending = 0
    /\ clientOpen = TRUE
    /\ scanbuf = 0
    /\ rounds = 0
    /\ cmd = NoLine
    /\ out = <<>>
    /\ dropped = 0
    /\ sent = NoSend
    /\ upgrades = 0
    /\ logouts = 0
    /\ userOps = <<>>

\* Conn.greet
Greet ==
    /\ pc = "greet"
    /\ out' = Write(out, "220", <<"ESMTP Service Ready">>)
    /\ pc' = "serve"
    /\ UNCHANGED <<server, connVars, pending, clientOpen, scanbuf, rounds, cmd,
                   dropped, sent, upgrades, logouts, userOps>>

\* one turn of the serve loop: read a line, split it, dispatch it
Serve ==
    /\ pc = "serve"
    /\ ~ReadFails
    /\ pending > 0
    /\ \E line \in Lines :
           /\ cmd' = line
           /\ handle(line.verb, line.arg)
    /\ UNCHANGED <<server, clientOpen>>

\* the serve loop ends on a read error and the connection is closed
ServeExit ==
    /\ pc = "serve"
    /\ ReadFails
    /\ Close
    /\ pc' = "done"
    /\ UNCHANGED <<server, helo, User, msg, conn, bufio, nbrErrors, pending,
                   clientOpen, scanbuf, rounds, cmd, out, dropped, sent, upgrades>>

\* the client writes one more line
ClientWrite ==
    /\ clientOpen
    /\ pc # "done"
    /\ ~closed
    /\ pending < MaxPending
    /\ pending' = pending + 1
    /\ UNCHANGED <<server, connVars, pc, clientOpen, scanbuf, rounds, cmd, out,
                   dropped, sent, upgrades, logouts, userOps>>

\* the client closes its side; the connection's task sees it once it has
\* read every line written before
ClientClose ==
    /\ clientOpen
    /\ pc # "done"
    /\ ~closed
    /\ pending = 0
    /\ clientOpen' = FALSE
    /\ UNCHANGED <<server, connVars, pc, pending, scanbuf, rounds, cmd, out,
                   dropped, sent, upgrades, logouts, userOps>>

Next ==
    \/ Greet
    \/ Serve
    \/ AuthScan
    \/ SendReturns
    \/ ServeExit
    \/ ClientWrite
    \/ ClientClose

Spec == Init /\ [][Next]_vars

----------------------------------------------------------------------------
(* Vocabulary of the properties *)

Range(s) == {s[i] : i \in 1..Len(s)}

\* the reply codes written since the last command line was dispatched
Codes == [i \in 1..Len(out) |-> out[i].code]
Codes_ == [i \in 1..Len(out') |-> out'[i].code]

\* this step is the serve loop dispatching a line of verb v
Dispatched(v) == pc = "serve" /\ pending' < pending /\ cmd'.verb = v

\* the last command has been handled to its end
Handled == pc \in {"serve", "done"} /\ cmd # NoLine

----------------------------------------------------------------------------
(* C1 *)

\* C1: every dispatched command is answered before the next one is accepted:
\* once a command is handled its handler has written at least one reply, and
\* an accepted DATA has written 354 and then exactly one terminal reply.
\* (The claim asks for exactly one reply; this is the part of it that every
\* reading shares.)
C1_EveryCommandReplied ==
    Handled =>
        IF sent.called
        THEN Len(out) = 2 /\ out[1].code = "354"
        ELSE Len(out) >= 1

----------------------------------------------------------------------------
(* C2 *)

\* C2: in every state, an existing envelope implies a user, and a user
\* implies a non-empty helo domain.
C2_EnvelopeUserHelo ==
    /\ ~msg.nil => User # Nil
    /\ User # Nil => helo # <<>>

\* an envelope with a sender and a recipient, between two commands
C2_Witness ==
    /\ pc = "serve"
    /\ cmd.verb = "RCPT"
    /\ ~msg.nil
    /\ User # Nil
    /\ helo # <<>>
    /\ Len(msg.To) > 0

----------------------------------------------------------------------------
(* C3 *)

\* the state in which handleData may deliver
C3_Deliverable(u, m) == u # Nil /\ ~m.nil /\ m.From # <<>> /\ Len(m.To) >= 1

\* C3: User.Send is invoked only by a DATA command with an empty argument,
\* on a set user and an envelope with a sender and at least one recipient;
\* a DATA dispatched in any other state, or with an argument, is answered by
\* a single 501 or 502, invokes nothing and leaves helo, User and the
\* envelope as they were.
C3_SendOnlyWhenReady ==
    [][ /\ sent'.called =>
              /\ cmd'.verb = "DATA"
              /\ cmd'.arg = <<>>
              /\ C3_Deliverable(sent'.user, sent'.msg)
        /\ (Dispatched("DATA") /\ sent'.called) =>
              /\ sent'.user = User
              /\ sent'.msg = msg
              /\ Codes_ = <<"354">>
        /\ (Dispatched("DATA") /\ ~(cmd'.arg = <<>> /\ C3_Deliverable(User, msg))) =>
              /\ Codes_ \in {<<"501">>, <<"502">>}
              /\ ~sent'.called
              /\ pc' = "serve"
              /\ UNCHANGED <<helo, User, msg>>
      ]_vars

\* Send has been invoked and has not returned yet
C3_Witness ==
    /\ pc = "send"
    /\ sent.called
    /\ cmd.verb = "DATA"
    /\ Len(sent.msg.To) = 2

----------------------------------------------------------------------------
(* C4 *)

\* C4: with AllowInsecureAuth false, on a plaintext transport, no user is
\* ever set and no 235 is ever replied.
C4_NoAuthOnPlaintext ==
    (~server.AllowInsecureAuth /\ conn = "tcp") =>
        /\ User = Nil
        /\ "235" \notin Range(Codes)

----------------------------------------------------------------------------
(* C5 *)

\* C5: no line the client wrote is lost: whatever is buffered behind the
\* line a handler consumes, a challenge response read by the SASL exchange
\* included, stays in the reader for the serve loop.  (Lines behind a
\* STARTTLS belong to the plaintext session the upgrade ends and are left
\* out of the statement.)
C5_NoLineDropped == cmd.verb # "STARTTLS" => dropped = 0

----------------------------------------------------------------------------
(* C6 *)

\* the RCPT arguments of the client that are well formed, and the recipient
\* each names
C6_Recipient(arg) ==
    CASE arg = <<"T", "O", ":", "<", "x", ">">> -> <<<<"x">>>>
      [] arg = <<"t", "o", ":", " ", "y">> -> <<<<"y">>>>
      [] OTHER -> <<>>

C6_Unchanged == UNCHANGED <<helo, User, msg, conn, bufio, nbrErrors, closed>>

\* C6 as stated: with MaxRecipients = k > 0 the envelope never holds more
\* than k recipients; a well-formed RCPT at k recipients is answered 552 and
\* changes nothing, one at fewer than k recipients appends its recipient and
\* is answered 250.
C6_AsStated ==
    [][ server.MaxRecipients > 0 =>
          /\ ~msg'.nil => Len(msg'.To) <= server.MaxRecipients
          /\ (Dispatched("RCPT") /\ C6_Recipient(cmd'.arg) # <<>> /\ ~msg.nil) =>
                IF Len(msg.To) >= server.MaxRecipients
                THEN Codes_ = <<"552">> /\ C6_Unchanged
                ELSE /\ Codes_ = <<"250">>
                     /\ msg' = [msg EXCEPT !.To = @ \o C6_Recipient(cmd'.arg)]
                     /\ UNCHANGED <<helo, User, conn, bufio, nbrErrors, closed>>
      ]_vars

\* C6, amended: the same, for a RCPT received once a sender has been
\* accepted (envelope.from set); before that RCPT is answered 502.
C6_RcptLimit ==
    [][ server.MaxRecipients > 0 =>
          /\ ~msg'.nil => Len(msg'.To) <= server.MaxRecipients
          /\ (Dispatched("RCPT") /\ C6_Recipient(cmd'.arg) # <<>> /\ ~msg.nil
                /\ msg.From # <<>>) =>
                IF Len(msg.To) >= server.MaxRecipients
                THEN Codes_ = <<"552">> /\ C6_Unchanged
                ELSE /\ Codes_ = <<"250">>
                     /\ msg' = [msg EXCEPT !.To = @ \o C6_Recipient(cmd'.arg)]
                     /\ UNCHANGED <<helo, User, conn, bufio, nbrErrors, closed>>
      ]_vars

\* a RCPT refused at the limit
C6_Witness ==
    /\ server.MaxRecipients = 2
    /\ pc = "serve"
    /\ cmd.verb = "RCPT"
    /\ Codes = <<"552">>
    /\ ~msg.nil
    /\ msg.To = << <<"x">>, <<"y">> >>

----------------------------------------------------------------------------
(* C7 *)

C7_Unrecognized == pc = "serve" /\ cmd.verb = "FOOBAR"

\* C7 as stated: each of the first four unrecognized commands gets a single
\* 500 and leaves the connection open.
C7_AsStated ==
    (C7_Unrecognized /\ nbrErrors <= 4) => (Codes = <<"500">> /\ ~closed)

\* C7, amended: each of the first three unrecognized commands gets a single
\* 500 and leaves the connection open; the fourth gets the 500 and then the
\* overflow reply, and closes the connection.
C7_FourthCloses ==
    C7_Unrecognized =>
        IF nbrErrors <= 3
        THEN Codes = <<"500">> /\ ~closed
        ELSE /\ nbrErrors = 4
             /\ Codes = <<"500", "500">>
             /\ out[2].text = <<"Too many unrecognized commands">>
             /\ closed

C7_Witness == C7_Unrecognized /\ nbrErrors = 4 /\ closed

----------------------------------------------------------------------------
(* C8 *)

\* the handshake of this STARTTLS succeeded
C8_Upgraded == Dispatched("STARTTLS") /\ conn = "tcp" /\ conn' = "tls"

\* what both readings of C8 share: a successful STARTTLS leaves helo, User
\* and the envelope empty, and they are regained only in order: a helo
\* domain by HELO/EHLO, an envelope by AUTH after that, a sender by MAIL
\* after that; until then, on the upgraded transport, MAIL and RCPT are
\* answered 502
C8_Regained ==
    /\ C8_Upgraded => (helo' = <<>> /\ User' = Nil /\ msg'.nil)
    /\ (helo = <<>> /\ helo' # <<>>) => cmd'.verb \in {"HELO", "EHLO"}
    /\ (msg.nil /\ ~msg'.nil) =>
          (cmd'.verb = "AUTH" /\ helo # <<>> /\ msg'.From = <<>> /\ msg'.To = <<>>)
    /\ (~msg.nil /\ ~msg'.nil /\ msg.From = <<>> /\ msg'.From # <<>>) =>
          Dispatched("MAIL")
    /\ (Dispatched("MAIL") /\ conn = "tls" /\ (helo = <<>> \/ msg.nil)) =>
          (Codes_ = <<"502">> /\ UNCHANGED <<helo, User, msg>>)
    /\ (Dispatched("RCPT") /\ conn = "tls" /\ (msg.nil \/ msg.From = <<>>)) =>
          (Codes_ = <<"502">> /\ UNCHANGED <<helo, User, msg>>)

\* C8 as stated: after a successful STARTTLS nothing negotiated survives,
\* and until a new HELO/EHLO (and AUTH, and MAIL) every MAIL, RCPT and DATA
\* is answered 502.
C8_AsStated ==
    [][ /\ C8_Regained
        /\ (Dispatched("DATA") /\ conn = "tls" /\ (msg.nil \/ msg.From = <<>>)) =>
              (Codes_ = <<"502">> /\ UNCHANGED <<helo, User, msg>>)
      ]_vars

\* C8, amended: the same, the DATA being one without an argument; a DATA
\* that carries an argument is answered 501 in every state.
C8_ResetBySTARTTLS ==
    [][ /\ C8_Regained
        /\ (Dispatched("DATA") /\ conn = "tls" /\ (msg.nil \/ msg.From = <<>>)) =>
              /\ Codes_ = IF cmd'.arg = <<>> THEN <<"502">> ELSE <<"501">>
              /\ UNCHANGED <<helo, User, msg>>
      ]_vars

\* a MAIL refused on the upgraded transport, before any new HELO/EHLO
C8_Witness ==
    /\ conn = "tls"
    /\ helo = <<>>
    /\ pc = "serve"
    /\ cmd.verb = "MAIL"
    /\ Codes = <<"502">>

----------------------------------------------------------------------------
(* C9 *)

\* C9: the transport is replaced by a TLS wrapper at most once, and only
\* from plaintext, by a STARTTLS under a server that has a TLS
\* configuration; a STARTTLS on TLS is answered 502 and leaves transport,
\* reader and writer, helo, User and envelope unchanged; a STARTTLS without
\* TLS configuration is answered 502 and leaves the transport plaintext.
C9_UpgradeOnce ==
    [][ /\ upgrades' <= 1
        /\ (conn' # conn \/ bufio' # bufio \/ upgrades' # upgrades) =>
              /\ Dispatched("STARTTLS")
              /\ conn = "tcp"
              /\ server.TLSConfig
              /\ upgrades' = upgrades + 1
        /\ (Dispatched("STARTTLS") /\ conn # "tcp") =>
              /\ Codes_ = <<"502">>
              /\ UNCHANGED <<conn, bufio, helo, User, msg>>
        /\ (Dispatched("STARTTLS") /\ ~server.TLSConfig) =>
              /\ Codes_ = <<"502">>
              /\ conn' = "tcp"
              /\ bufio' = "tcp"
      ]_vars

\* a STARTTLS refused on the upgraded transport, with a session under way
C9_Witness ==
    /\ conn = "tls"
    /\ upgrades = 1
    /\ pc = "serve"
    /\ cmd.verb = "STARTTLS"
    /\ Codes = <<"502">>
    /\ User # Nil

----------------------------------------------------------------------------
(* C10 *)

\* C10: an EHLO reply carries an AUTH line exactly when the connection is on
\* TLS or AllowInsecureAuth is set, and a STARTTLS line exactly when the
\* server has a TLS configuration and the connection is not on TLS; a HELO
\* reply carries no capability line.
C10_Capabilities ==
    (pc = "serve" /\ Codes = <<"250">>) =>
        /\ cmd.verb = "EHLO" =>
              /\ Len(out[1].text) >= 1
              /\ "AUTH" \in Range(Tail(out[1].text))
                    <=> (conn # "tcp" \/ server.AllowInsecureAuth)
              /\ "STARTTLS" \in Range(Tail(out[1].text))
                    <=> (server.TLSConfig /\ conn = "tcp")
        /\ cmd.verb = "HELO" => out[1].text = <<"Hello">>

\* an EHLO on TLS that advertises AUTH although AllowInsecureAuth is unset,
\* and no STARTTLS
C10_Witness ==
    /\ pc = "serve"
    /\ cmd.verb = "EHLO"
    /\ Codes = <<"250">>
    /\ conn = "tls"
    /\ ~server.AllowInsecureAuth
    /\ "AUTH" \in Range(out[1].text)
    /\ "STARTTLS" \notin Range(out[1].text)

----------------------------------------------------------------------------
(* C11 *)

\* the MAIL arguments of the client that are well formed and whose SIZE, if
\* any, is a decimal integer: sender, and SIZE (-1 when absent; wide when the
\* integer is 2147483648, one more than the size field can hold)
C11_Mails ==
    { [arg |-> [kw |-> "FROM:", addr |-> <<"a">>, params |-> <<>>],
       from |-> <<"a">>, size |-> -1, wide |-> FALSE],
      [arg |-> [kw |-> "from:", addr |-> <<"b">>, params |-> <<>>],
       from |-> <<"b">>, size |-> -1, wide |-> FALSE],
      [arg |-> [kw |-> "FROM:", addr |-> <<"a">>,
                params |-> << <<"size", [digits |-> TRUE, ds |-> <<1>>]>> >>],
       from |-> <<"a">>, size |-> 1, wide |-> FALSE],
      [arg |-> [kw |-> "FROM:", addr |-> <<"b">>,
                params |-> << <<"size", [digits |-> TRUE, ds |-> <<3>>]>> >>],
       from |-> <<"b">>, size |-> 3, wide |-> FALSE],
      [arg |-> [kw |-> "FROM:", addr |-> <<"b">>,
                params |-> << <<"size", [digits |-> TRUE,
                                         ds |-> <<2, 1, 4, 7, 4, 8, 3, 6, 4, 8>>]>> >>],
       from |-> <<"b">>, size |-> 2147483647, wide |-> TRUE] }

\* a MAIL is permitted: a helo domain is set and an envelope exists
C11_Permitted == helo # <<>> /\ ~msg.nil

C11_Accepted(m) ==
    /\ Codes_ = <<"250">>
    /\ msg' = [msg EXCEPT !.From = m.from]
    /\ UNCHANGED <<helo, User>>

C11_Refused(code) == Codes_ = <<code>> /\ UNCHANGED <<helo, User, msg>>

\* C11 as stated: with MaxMessageBytes = m > 0, a well-formed MAIL whose
\* SIZE is a decimal integer greater than m is answered 552 and leaves the
\* sender unchanged; one without SIZE, or with SIZE at most m, is answered
\* 250 and sets the sender.  With m = 0 no SIZE is answered 552.
C11_AsStated ==
    [][ \A m \in C11_Mails :
          (Dispatched("MAIL") /\ C11_Permitted /\ cmd'.arg = m.arg) =>
              IF server.MaxMessageBytes > 0
              THEN IF m.size > server.MaxMessageBytes
                      \/ m.wide
                   THEN C11_Refused("552")
                   ELSE C11_Accepted(m)
              ELSE Codes_ # <<"552">>
      ]_vars

\* C11, amended: the same for a SIZE within the 32-bit range; a SIZE beyond
\* 2147483647 is answered 501 whatever MaxMessageBytes is, the sender
\* unchanged, and with MaxMessageBytes = 0 every other well-formed MAIL is
\* answered 250.
C11_SizeLimit ==
    [][ \A m \in C11_Mails :
          (Dispatched("MAIL") /\ C11_Permitted /\ cmd'.arg = m.arg) =>
              IF m.wide
              THEN C11_Refused("501")
              ELSE IF server.MaxMessageBytes > 0 /\ m.size > server.MaxMessageBytes
              THEN C11_Refused("552")
              ELSE C11_Accepted(m)
      ]_vars

\* a MAIL refused for its SIZE, the sender accepted before still in place
C11_Witness ==
    /\ server.MaxMessageBytes = 2
    /\ pc = "serve"
    /\ cmd.verb = "MAIL"
    /\ cmd.arg.addr = <<"b">>
    /\ Codes = <<"552">>
    /\ ~msg.nil
    /\ msg.From = <<"a">>

----------------------------------------------------------------------------
(* C12 *)

\* a step that puts one more recipient at the end of the envelope
C12_Appended ==
    /\ ~msg.nil
    /\ ~msg'.nil
    /\ Len(msg'.To) = Len(msg.To) + 1
    /\ SubSeq(msg'.To, 1, Len(msg.To)) = msg.To

\* C12: after every step an envelope with recipients has a sender; a
\* recipient is appended only by RCPT and only when the sender was already
\* set; no step (a repeated MAIL refused 501 or 552 included) empties the
\* sender while recipients remain.
C12_RecipientsImplySender ==
    [][ /\ (~msg'.nil /\ msg'.To # <<>>) => msg'.From # <<>>
        /\ C12_Appended => Dispatched("RCPT") /\ msg.From # <<>>
        /\ (~msg.nil /\ msg.From # <<>> /\ ~msg'.nil /\ msg'.To # <<>>)
               => msg'.From # <<>>
        /\ (Dispatched("MAIL") /\ ~msg.nil /\ msg.To # <<>>
              /\ Codes_ \in {<<"501">>, <<"552">>}) => UNCHANGED msg
      ]_vars

\* a repeated MAIL refused while the envelope holds a recipient
C12_Witness ==
    /\ pc = "serve"
    /\ cmd.verb = "MAIL"
    /\ Codes \in {<<"501">>, <<"552">>}
    /\ ~msg.nil
    /\ msg.To # <<>>
    /\ msg.From # <<>>

----------------------------------------------------------------------------
(* C13 *)

\* C13: the transport is replaced, the reader and writer are rebuilt and
\* IsTLS becomes true only by a STARTTLS whose handshake succeeds; a
\* handshake that fails is answered 550 and leaves the transport as it was,
\* so the connection is never afterwards treated as encrypted.
C13_ReplacedOnlyOnSuccess ==
    [][ /\ (conn' # conn \/ bufio' # bufio \/ upgrades' # upgrades) =>
               /\ Dispatched("STARTTLS")
               /\ Codes_ = <<"220">>
               /\ conn' = "tls"
        /\ (Dispatched("STARTTLS") /\ "550" \in Range(Codes_)) =>
               /\ UNCHANGED <<conn, bufio>>
               /\ ~IsTLS'
      ]_vars

----------------------------------------------------------------------------
(* C14 *)

\* C14: an AUTH received with a helo domain set, a non-empty argument and a
\* mechanism the server does not offer is answered 504 and starts no SASL
\* exchange, whatever follows the mechanism token: nothing, an initial
\* response that is valid base64, or one that is not.
C14_UnknownMechanism ==
    [][ (Dispatched("AUTH") /\ helo # <<>> /\ cmd'.arg # <<>>
           /\ cmd'.arg[1] = "BOGUS") =>
               /\ Codes_ = <<"504">>
               /\ pc' = "serve"
               /\ UNCHANGED <<helo, User, msg>>
      ]_vars

----------------------------------------------------------------------------
(* C15 *)

\* C15: after each of RSET, QUIT and an accepted STARTTLS the user is empty
\* and, if there was a user, its Logout was called; the helo domain is
\* empty as well after RSET and STARTTLS.
C15_UserGone ==
    [][ (\/ Dispatched("RSET")
         \/ Dispatched("QUIT")
         \/ Dispatched("STARTTLS") /\ "220" \in Range(Codes_)) =>
            /\ User' = Nil
            /\ User # Nil => userOps' = <<"Logout">>
            /\ cmd'.verb # "QUIT" => helo' = <<>>
      ]_vars

----------------------------------------------------------------------------
(* C16 *)

\* the replies of a DATA that was accepted and has finished
C16_Terminal(codes) ==
    /\ Len(codes) = 2
    /\ codes[1] = "354"
    /\ codes[2] \in {"250", "552", "554"}

\* C16: when an accepted DATA has written its terminal reply, whether that
\* is 250, the code of the backend's own error or 554, the envelope, the
\* helo domain and the user are empty and the user has been logged out; a
\* MAIL that follows directly is answered 502.
C16_ResetAfterData ==
    [][ /\ (pc = "send" /\ pc' # "send") =>
               /\ pc' = "serve"
               /\ C16_Terminal(Codes_)
               /\ msg' = NilMsg
               /\ helo' = <<>>
               /\ User # Nil
               /\ User' = Nil
               /\ userOps' = <<"Logout">>
        /\ (Dispatched("MAIL") /\ cmd.verb = "DATA" /\ C16_Terminal(Codes)) =>
               /\ Codes_ = <<"502">>
               /\ UNCHANGED <<helo, User, msg>>
      ]_vars

\* a DATA whose delivery failed has finished and the connection is back to
\* its state before HELO, the user logged out
C16_Witness ==
    /\ pc = "serve"
    /\ cmd.verb = "DATA"
    /\ Codes = <<"354", "554">>
    /\ msg = NilMsg
    /\ helo = <<>>
    /\ User = Nil
    /\ userOps = <<"Logout">>

----------------------------------------------------------------------------
(* C17 *)

\* C17: the SASL exchange runs only while the connection has no envelope; an
\* AUTH received while an envelope exists starts no exchange (no challenge,
\* no 235) and leaves the envelope and the user as they were.
C17_NoAuthWithEnvelope ==
    [][ /\ pc' = "auth" => msg'.nil
        /\ (Dispatched("AUTH") /\ ~msg.nil) =>
               /\ pc' = "serve"
               /\ Range(Codes_) \cap {"334", "235"} = {}
               /\ userOps' = <<>>
               /\ UNCHANGED <<User, msg>>
      ]_vars

----------------------------------------------------------------------------
(* C18 *)

\* C18: the counter of unrecognized commands changes only when a command
\* with an unrecognized verb is dispatched, and then by exactly one; no
\* other step changes it: not RSET, STARTTLS, the end of DATA or a
\* successful AUTH, not an empty line, a verb that is not implemented or a
\* known verb refused with 501, 502, 504 or 552.
C18_CounterOnlyCounts ==
    [][ /\ nbrErrors' # nbrErrors =>
               /\ Dispatched("FOOBAR")
               /\ nbrErrors' = nbrErrors + 1
        /\ Dispatched("FOOBAR") => nbrErrors' = nbrErrors + 1
      ]_vars

\* a known verb refused 501 after two unrecognized commands were counted
C18_Witness ==
    /\ pc = "serve"
    /\ nbrErrors = 2
    /\ cmd.verb \in {"MAIL", "RCPT", "DATA"}
    /\ Codes = <<"501">>

----------------------------------------------------------------------------
(* C19 *)

\* C19: Logout is called at most once on each authenticated user, also when
\* Close is called again after QUIT or after the connection was closed for
\* too many unrecognized commands, and at least once before the connection
\* lets go of a user: when the user is cleared, when another user takes its
\* place, and when the connection is done.
C19_LogoutExactlyOnce ==
    [][ /\ logouts' <= 1
        /\ (User # Nil /\ logouts = 0 /\ User' = Nil) => userOps' = <<"Logout">>
        /\ (User # Nil /\ logouts = 0) => "Set" \notin Range(userOps')
        /\ (pc' = "done" /\ User' # Nil) => logouts' >= 1
      ]_vars

----------------------------------------------------------------------------
(* C20 *)

\* the step changes the recipients of an envelope, or drops the envelope
C20_ToChanged == ~msg.nil /\ (msg'.nil \/ msg'.To # msg.To)

\* a RCPT answered 250 that puts one recipient after those already there
C20_Append ==
    /\ Dispatched("RCPT")
    /\ Codes_ = <<"250">>
    /\ ~msg'.nil
    /\ Len(msg'.To) = Len(msg.To) + 1
    /\ \A i \in 1..Len(msg.To) : msg'.To[i] = msg.To[i]
    /\ msg'.From = msg.From

\* RSET, STARTTLS, the end of DATA or a successful AUTH discards the envelope
C20_Discard ==
    /\ \/ Dispatched("RSET")
       \/ Dispatched("STARTTLS")
       \/ pc = "send"
       \/ cmd'.verb = "AUTH" /\ "235" \in Range(Codes_)
    /\ msg' \in {NilMsg, Message(<<>>, <<>>)}

\* C20: the recipients of the envelope change only by a RCPT answered 250,
\* which appends one recipient and keeps the others in order, and by the
\* operations that discard the whole envelope (RSET, STARTTLS, the end of
\* DATA, a successful AUTH).  HELO or EHLO in the middle of a transaction
\* changes the helo domain only, and a repeated MAIL answered 250 replaces
\* the sender and keeps the recipients.
C20_RecipientsFrame ==
    [][ /\ C20_ToChanged => (C20_Append \/ C20_Discard)
        /\ (Dispatched("HELO") \/ Dispatched("EHLO")) =>
               UNCHANGED <<User, msg, conn, bufio, nbrErrors, closed>>
        /\ (Dispatched("MAIL") /\ Codes_ = <<"250">>) =>
               /\ ~msg.nil
               /\ msg' = [msg EXCEPT !.From = cmd'.arg.addr]
      ]_vars

\* EHLO accepted in the middle of a transaction, the recipients still there
C20_Witness ==
    /\ pc = "serve"
    /\ cmd.verb = "EHLO"
    /\ Len(Codes) = 1
    /\ Codes[1] = "250"
    /\ helo # <<>>
    /\ ~msg.nil
    /\ msg.From # <<>>
    /\ msg.To # <<>>

====
